---- MODULE Spec2Model ----
(***************************************************************************)
(* Model of the portfolio-table command of obsidian-get-stock-information. *)
(* The repository holds two variants of the plugin:                        *)
(*   "finnhub"  src/src/main.ts        (API-keyed, one request per symbol) *)
(*   "batch"    src/unnamed/part_000   (Yahoo batch URLs, Stooq fallback)  *)
(* Text is modelled character by character: a line is a TLA+ string and    *)
(* the helpers below read it one character at a time, as the JavaScript    *)
(* string methods and regular expressions of the source do.                *)
(* Numbers are fixed-point hundredths ("cents"): 150 is 15000.             *)
(***************************************************************************)
EXTENDS Integers, Sequences, FiniteSets, TLC

(***************************************************************************)
(* Characters and strings                                                  *)
(***************************************************************************)
At(s, i) == SubSeq(s, i, i)

From(s, i) == SubSeq(s, i, Len(s))

\* JavaScript \s, restricted to the whitespace the model's texts contain
IsSpace(c) == c \in {" ", "\t", "\r"}

IsDigit(c) == c \in {"0", "1", "2", "3", "4", "5", "6", "7", "8", "9"}

DigitVal(c) ==
  CASE c = "0" -> 0 [] c = "1" -> 1 [] c = "2" -> 2 [] c = "3" -> 3
    [] c = "4" -> 4 [] c = "5" -> 5 [] c = "6" -> 6 [] c = "7" -> 7
    [] c = "8" -> 8 [] c = "9" -> 9

DigitChar(d) == At("0123456789", d + 1)

UpperLetters == "ABCDEFGHIJKLMNOPQRSTUVWXYZ"

LowerLetters == "abcdefghijklmnopqrstuvwxyz"

LowerOf == [c \in {At(UpperLetters, i) : i \in 1..26} |->
              At(LowerLetters, CHOOSE i \in 1..26 : At(UpperLetters, i) = c)]

UpperOf == [c \in {At(LowerLetters, i) : i \in 1..26} |->
              At(UpperLetters, CHOOSE i \in 1..26 : At(LowerLetters, i) = c)]

\* the string s with every character in the domain of `map` replaced
RECURSIVE MapChars(_, _, _)
MapChars(s, map, i) ==
  IF i > Len(s) THEN ""
  ELSE (IF At(s, i) \in DOMAIN map THEN map[At(s, i)] ELSE At(s, i))
         \o MapChars(s, map, i + 1)

toLowerCase(s) == MapChars(s, LowerOf, 1)

toUpperCase(s) == MapChars(s, UpperOf, 1)

\* the first index from i on that holds no whitespace (Len(s) + 1 if none)
RECURSIVE SkipSpace(_, _)
SkipSpace(s, i) ==
  IF i <= Len(s) /\ IsSpace(At(s, i)) THEN SkipSpace(s, i + 1) ELSE i

\* the last index up to i that holds no whitespace (0 if none)
RECURSIVE SkipSpaceBack(_, _)
SkipSpaceBack(s, i) ==
  IF i >= 1 /\ IsSpace(At(s, i)) THEN SkipSpaceBack(s, i - 1) ELSE i

trim(s) == SubSeq(s, SkipSpace(s, 1), SkipSpaceBack(s, Len(s)))

includes(s, c) == \E i \in 1..Len(s) : At(s, i) = c

\* /^\s*$/
isBlank(s) == SkipSpace(s, 1) > Len(s)

\* String.prototype.split on a one-character separator: the pieces between
\* consecutive occurrences of the separator
split(s, c) ==
  LET seps    == {i \in 1..Len(s) : At(s, i) = c}
      nth(k)  == IF k = 0 THEN 0
                 ELSE IF k > Cardinality(seps) THEN Len(s) + 1
                 ELSE CHOOSE p \in seps : Cardinality({q \in seps : q < p}) = k - 1
  IN  [k \in 1..(Cardinality(seps) + 1) |-> SubSeq(s, nth(k - 1) + 1, nth(k) - 1)]

\* Array.prototype.join
RECURSIVE join(_, _)
join(cells, sep) ==
  IF Len(cells) = 0 THEN ""
  ELSE IF Len(cells) = 1 THEN cells[1]
  ELSE cells[1] \o sep \o join(Tail(cells), sep)

normalizeSymbol(symbol) == toUpperCase(trim(symbol))

(***************************************************************************)
(* Optional values: null / undefined is None, a present value v is <<v>>.  *)
(***************************************************************************)
None == <<>>

Some(v) == <<v>>

(***************************************************************************)
(* parseNumber and formatNumber                                            *)
(***************************************************************************)
\* value.replace(/[$,%\s]/g, "").replace(/,/g, "")
RECURSIVE cleanNumber(_)
cleanNumber(s) ==
  IF Len(s) = 0 THEN ""
  ELSE LET c == At(s, 1)
       IN  (IF c \in {"$", ",", "%"} \/ IsSpace(c) THEN "" ELSE c)
             \o cleanNumber(From(s, 2))

RECURSIVE DigitRun(_)
DigitRun(s) ==
  IF Len(s) > 0 /\ IsDigit(At(s, 1)) THEN At(s, 1) \o DigitRun(From(s, 2)) ELSE ""

RECURSIVE DigitsValue(_, _)
DigitsValue(s, acc) ==
  IF Len(s) = 0 THEN acc ELSE DigitsValue(From(s, 2), 10 * acc + DigitVal(At(s, 1)))

\* Number.parseFloat: the longest prefix [+-]?digits[.digits]; None for NaN.
\* The result is in cents, so fraction digits after the second are dropped;
\* exponents are not read (no cell of the model holds one).
parseFloat(s) ==
  LET signed   == Len(s) > 0 /\ At(s, 1) \in {"+", "-"}
      negative == Len(s) > 0 /\ At(s, 1) = "-"
      body     == IF signed THEN From(s, 2) ELSE s
      whole    == DigitRun(body)
      rest     == From(body, Len(whole) + 1)
      dotted   == Len(rest) > 0 /\ At(rest, 1) = "."
      frac     == IF dotted THEN DigitRun(From(rest, 2)) ELSE ""
      frac2    == SubSeq(frac \o "00", 1, 2)
      cents    == 100 * DigitsValue(whole, 0) + DigitsValue(frac2, 0)
  IN  IF Len(whole) = 0 /\ Len(frac) = 0 THEN None
      ELSE Some(IF negative THEN 0 - cents ELSE cents)

parseNumber(value) ==
  IF value = "" THEN None ELSE parseFloat(cleanNumber(value))

RECURSIVE DigitsOf(_)
DigitsOf(n) ==
  IF n < 10 THEN DigitChar(n) ELSE DigitsOf(n \div 10) \o DigitChar(n % 10)

\* Grouped with the grouping left out (useGrouping: false)
Grouped_Ungrouped(digits) == digits

\* en-US grouping: a comma before every group of three integer digits
RECURSIVE Grouped(_)
Grouped(digits) ==
  IF Len(digits) <= 3 THEN digits
  ELSE Grouped(SubSeq(digits, 1, Len(digits) - 3)) \o ","
         \o SubSeq(digits, Len(digits) - 2, Len(digits))

Abs(n) == IF n < 0 THEN 0 - n ELSE n

\* Intl.NumberFormat("en-US", {minimumFractionDigits: 2, maximumFractionDigits: 2})
\* of a value given in cents
formatNumber(cents) ==
  LET a == Abs(cents)
  IN  (IF cents < 0 THEN "-" ELSE "")
        \o Grouped(DigitsOf(a \div 100)) \o "."
        \o DigitChar((a % 100) \div 10) \o DigitChar(a % 10)

\* n / d rounded to the nearest integer, halves away from zero: the rounding
\* Intl.NumberFormat applies at maximumFractionDigits
RoundDiv(n, d) ==
  LET q == Abs(n) \div Abs(d)
      r == Abs(n) % Abs(d)
      m == IF 2 * r >= Abs(d) THEN q + 1 ELSE q
  IN  IF (n < 0) = (d < 0) THEN m ELSE 0 - m

(***************************************************************************)
(* The table locator and parser of updatePortfolioTable                    *)
(***************************************************************************)
MinDashes == 3

\* The regular expression of isTableSeparator, read left to right.  Its
\* pieces start with different characters, so each piece takes all it can;
\* the one choice, whether a '|' opens another cell or ends the line, is
\* tried both ways.  An operator maps the index a match has reached to the
\* index after its piece, 0 when the piece does not match.
OptChar(s, i, c) == IF i <= Len(s) /\ At(s, i) = c THEN i + 1 ELSE i

RECURSIVE SkipDashes(_, _)
SkipDashes(s, i) ==
  IF i <= Len(s) /\ At(s, i) = "-" THEN SkipDashes(s, i + 1) ELSE i

\* :?-{3,}:?\s*
SepCell(s, i) ==
  LET from == OptChar(s, i, ":")
      to   == SkipDashes(s, from)
  IN  IF to - from >= MinDashes THEN SkipSpace(s, OptChar(s, to, ":")) ELSE 0

\* \|\s*:?-{3,}:?\s*
SepGroup(s, i) ==
  IF i <= Len(s) /\ At(s, i) = "|" THEN SepCell(s, SkipSpace(s, i + 1)) ELSE 0

\* \|?\s*$
SepEnd(s, i) == SkipSpace(s, OptChar(s, i, "|")) = Len(s) + 1

\* (\|\s*:?-{3,}:?\s*)*\|?\s*$ from index i
RECURSIVE SepRest(_, _)
SepRest(s, i) ==
  LET next == SepGroup(s, i)
  IN  IF next # 0 THEN SepRest(s, next) ELSE SepEnd(s, i)

\* /^\s*\|?\s*:?-{3,}:?\s*(\|\s*:?-{3,}:?\s*)+\|?\s*$/
isTableSeparator(line) ==
  LET first  == SepCell(line, SkipSpace(line, OptChar(line, SkipSpace(line, 1), "|")))
      second == IF first = 0 THEN 0 ELSE SepGroup(line, first)
  IN  second # 0 /\ SepRest(line, second)

isTableRow(line) == includes(line, "|") /\ ~isBlank(line)

\* splitRow's map without the trim: (c) => c
MapTrim_Identity(cells) == cells

MapTrim(cells) == [i \in 1..Len(cells) |-> trim(cells[i])]

splitRow(line) ==
  LET t0 == trim(line)
      t1 == IF Len(t0) > 0 /\ At(t0, 1) = "|" THEN From(t0, 2) ELSE t0
      t2 == IF Len(t1) > 0 /\ At(t1, Len(t1)) = "|"
              THEN SubSeq(t1, 1, Len(t1) - 1) ELSE t1
  IN  MapTrim(split(t2, "|"))

\* lines[i] of the source (indices from 0)
LineAt(lines, i) == lines[i + 1]

\* isTableRow(lines[i]) && isTableSeparator(lines[i + 1])
startsTable(lines, i) ==
  isTableRow(LineAt(lines, i)) /\ isTableSeparator(LineAt(lines, i + 1))

\* locateStart without the break: the last hit of the loop wins
locateStart_NoBreak(lines) ==
  LET found == {i \in 0..(Len(lines) - 2) : startsTable(lines, i)}
  IN  IF found = {} THEN -1 ELSE CHOOSE i \in found : \A k \in found : i >= k

\* for (let i = 0; i < lines.length - 1; i++) ... tableStart = i; break
\* (-1 when the loop ends without a hit)
locateStart(lines) ==
  LET found == {i \in 0..(Len(lines) - 2) : startsTable(lines, i)}
  IN  IF found = {} THEN -1 ELSE CHOOSE i \in found : \A k \in found : i <= k

\* while (j < lines.length && isTableRow(lines[j])) j++
RECURSIVE RowRun(_, _)
RowRun(lines, j) ==
  IF j < Len(lines) /\ isTableRow(LineAt(lines, j)) THEN RowRun(lines, j + 1) ELSE j

\* let j = i + 2; while ... j++; tableEnd = j - 1
locateEnd(lines, start) == IF start = -1 THEN -1 ELSE RowRun(lines, start + 2) - 1

\* header = splitRow(lines[i]); [] when no table starts
locateHeader(lines, start) ==
  IF start = -1 THEN <<>> ELSE splitRow(LineAt(lines, start))

\* headerIndex without toLowerCase(): names.includes(h.trim())
headerIndex_CaseSensitive(hdr, names) ==
  LET hits == {i \in 0..(Len(hdr) - 1) : trim(hdr[i + 1]) \in names}
  IN  IF hits = {} THEN -1 ELSE CHOOSE i \in hits : \A k \in hits : i <= k

\* header.findIndex((h) => names.includes(h.trim().toLowerCase()))
headerIndex(hdr, names) ==
  LET hits == {i \in 0..(Len(hdr) - 1) : toLowerCase(trim(hdr[i + 1])) \in names}
  IN  IF hits = {} THEN -1 ELSE CHOOSE i \in hits : \A k \in hits : i <= k

TickerNames == {"fund", "ticker", "symbol", "fund/ticker"}

SharesNames == {"shares", "qty", "quantity", "units"}

PriceNames == {"current price", "price", "last price"}

ValueNames == {"value", "market value"}

AllocationNames == {"allocation", "allocation %", "alloc %"}

\* the five column indices of a header
Columns(ticker, shares, price, value, allocation) ==
  [ticker |-> ticker, shares |-> shares, price |-> price, value |-> value,
   allocation |-> allocation]

\* lines.slice(tableStart + 2, tableEnd + 1).map(splitRow)
sliceRows(lines, start, end) ==
  [k \in 1..(end - start - 1) |-> splitRow(LineAt(lines, start + 1 + k))]

\* row[index] of the source. Past the end of the row the source reads
\* undefined, which each of its uses (filter(Boolean), || "") treats as "".
CellAt(row, index) ==
  IF 0 <= index /\ index + 1 <= Len(row) THEN row[index + 1] ELSE ""

\* .filter(Boolean) on strings: drops undefined and the empty string
RECURSIVE filterBoolean(_)
filterBoolean(cells) ==
  IF Len(cells) = 0 THEN <<>>
  ELSE (IF Head(cells) = "" THEN <<>> ELSE <<Head(cells)>>) \o filterBoolean(Tail(cells))

\* dataRows.map((row) => row[tickerIndex]).filter(Boolean).map(normalizeSymbol)
rowSymbols(rows, ticker) ==
  LET kept == filterBoolean([k \in 1..Len(rows) |-> CellAt(rows[k], ticker)])
  IN  [k \in 1..Len(kept) |-> normalizeSymbol(kept[k])]

(***************************************************************************)
(* Quotes.  A Quote is a record whose numeric fields are optional; a       *)
(* QuoteMap is a function from the symbols it holds to their quotes.       *)
(***************************************************************************)
Quote(symbol, price, ask, bid, previousClose) ==
  [symbol |-> symbol, regularMarketPrice |-> price, ask |-> ask, bid |-> bid,
   regularMarketPreviousClose |-> previousClose]

EmptyMap == [s \in {} |-> None]

\* Map.prototype.set
MapSet(map, key, quote) ==
  [s \in DOMAIN map \cup {key} |-> IF s = key THEN quote ELSE map[s]]

\* Map.prototype.get: None (undefined) for a key the map does not hold
MapGet(map, key) == IF key \in DOMAIN map THEN Some(map[key]) ELSE None

\* quote.regularMarketPrice ?? quote.ask ?? quote.bid ??
\*   quote.regularMarketPreviousClose ?? null
quotePrice(quote) ==
  IF quote.regularMarketPrice # None THEN quote.regularMarketPrice
  ELSE IF quote.ask # None THEN quote.ask
  ELSE IF quote.bid # None THEN quote.bid
  ELSE quote.regularMarketPreviousClose

(***************************************************************************)
(* Reconciliation: the rows of the table joined with the quotes            *)
(***************************************************************************)
\* padRow with the padding loop left out
padRow_Unpadded(row, width) == row

\* while (row.length < header.length) row.push("")
padRow(row, width) ==
  [i \in 1..(IF Len(row) < width THEN width ELSE Len(row)) |->
     IF i <= Len(row) THEN row[i] ELSE ""]

\* row[index] = text.  Assigning past the end of a JavaScript array leaves
\* holes, which join() renders as empty strings.
SetCell(row, index, text) ==
  [i \in 1..(IF Len(row) < index + 1 THEN index + 1 ELSE Len(row)) |->
     IF i = index + 1 THEN text ELSE IF i <= Len(row) THEN row[i] ELSE ""]

\* quotes.get(normalizeSymbol(row[tickerIndex] || "")) of a padded row
rowQuote(cols, row, quotes) == MapGet(quotes, normalizeSymbol(CellAt(row, cols.ticker)))

\* price * shares, both in cents
Times(price, shares) == RoundDiv(price * shares, 100)

\* price !== null && shares !== null ? price * shares : null
rowValue(cols, row, quote) ==
  LET price  == quotePrice(quote)
      shares == parseNumber(CellAt(row, cols.shares))
  IN  IF price # None /\ shares # None THEN Some(Times(price[1], shares[1])) ELSE None

\* the body of dataRows.map((row, rowIndex) => ...)
updatedRow(hdr, cols, row, quotes) ==
  LET padded == padRow(row, Len(hdr))
      found  == rowQuote(cols, padded, quotes)
  IN  IF found = None THEN padded
      ELSE LET price  == quotePrice(found[1])
               value  == rowValue(cols, padded, found[1])
               priced == IF cols.price # -1 /\ price # None
                           THEN SetCell(padded, cols.price, formatNumber(price[1]))
                           ELSE padded
           IN  IF cols.value # -1 /\ value # None
                 THEN SetCell(priced, cols.value, formatNumber(value[1]))
                 ELSE priced

\* rowValues[rowIndex] ?? 0: 0 for a row without quote (a hole of rowValues)
\* and for a row whose value is null
rowValueOrZero(hdr, cols, row, quotes) ==
  LET padded == padRow(row, Len(hdr))
      found  == rowQuote(cols, padded, quotes)
  IN  IF found = None THEN 0
      ELSE LET value == rowValue(cols, padded, found[1])
           IN  IF value = None THEN 0 ELSE value[1]

\* rowValues.reduce((sum, v) => sum + v, 0)
RECURSIVE totalValue(_, _, _, _)
totalValue(hdr, cols, rows, quotes) ==
  IF Len(rows) = 0 THEN 0
  ELSE rowValueOrZero(hdr, cols, Head(rows), quotes)
         + totalValue(hdr, cols, Tail(rows), quotes)

\* allocationIndex !== -1 && totalValue > 0
writesAllocation(cols, total) == cols.allocation # -1 /\ total > 0

\* allocationText without the factor 100: the fraction, not the percentage
allocationText_Fraction(value, total) == formatNumber(RoundDiv(value * 100, total))

\* formatNumber((value / totalValue) * 100, 2)
allocationText(value, total) == formatNumber(RoundDiv(value * 10000, total))

\* the rows after both passes of the reconciliation
updatedRows(hdr, cols, rows, quotes) ==
  LET total == totalValue(hdr, cols, rows, quotes)
  IN  [k \in 1..Len(rows) |->
         IF writesAllocation(cols, total)
           THEN SetCell(updatedRow(hdr, cols, rows[k], quotes), cols.allocation,
                        allocationText(rowValueOrZero(hdr, cols, rows[k], quotes), total))
           ELSE updatedRow(hdr, cols, rows[k], quotes)]

\* rowLine without the spaces around the cells: `|${cells.join("|")}|`
rowLine_Tight(cells) == "|" \o join(cells, "|") \o "|"

\* `| ${cells.join(" | ")} |`
rowLine(cells) == "| " \o join(cells, " | ") \o " |"

\* [header line, lines[tableStart + 1], ...updatedRows lines]
updatedTableLines(hdr, separatorLine, rows) ==
  <<rowLine(hdr), separatorLine>> \o [k \in 1..Len(rows) |-> rowLine(rows[k])]

\* updatedText with after = lines.slice(tableEnd): the last table line is kept
updatedText_KeepsLastRow(lines, start, end, tableLines) ==
  join(SubSeq(lines, 1, start) \o tableLines \o SubSeq(lines, end + 1, Len(lines)),
       "\n")

\* [...lines.slice(0, tableStart), ...updatedTableLines,
\*  ...lines.slice(tableEnd + 1)].join("\n")
updatedText(lines, start, end, tableLines) ==
  join(SubSeq(lines, 1, start) \o tableLines \o SubSeq(lines, end + 2, Len(lines)),
       "\n")

(***************************************************************************)
(* The providers.  A response is what requestUrl hands back: `rejected`    *)
(* when the promise rejects (no network, or an error status under the      *)
(* default throw: true), else the decoded fields the adapters read.        *)
(***************************************************************************)
FinnhubResponse(rejected, status, c, pc) ==
  [rejected |-> rejected, status |-> status, c |-> c, pc |-> pc]

\* c and pc are None when the body carries no number there
FinnhubResponses(symbol) ==
  IF symbol = "AAPL"
    THEN {FinnhubResponse(TRUE, 0, None, None),
          FinnhubResponse(FALSE, 429, None, None),
          FinnhubResponse(FALSE, 200, Some(15000), Some(14900))}
  ELSE IF symbol = "MSFT"
    THEN {FinnhubResponse(TRUE, 0, None, None),
          FinnhubResponse(FALSE, 200, Some(5000), None)}
  ELSE {FinnhubResponse(FALSE, 200, None, None),
        FinnhubResponse(FALSE, 200, Some(0), Some(0))}

\* fetchFinnhubQuote after the await: null (None) or the Quote
fetchFinnhubQuote(symbol, response) ==
  IF response.status # 200 THEN None
  ELSE IF response.c = None THEN None
  ELSE Some(Quote(normalizeSymbol(symbol), response.c, None, None, response.pc))

\* A Yahoo quote carries further fields of the type Quote next to those of
\* Quote(...): names and currency as strings, volume and the ranges in cents
\* like the prices, marketCap in millions (it exceeds the integers of the
\* model otherwise).
YahooResponse(rejected, hasResult, result) ==
  [rejected |-> rejected, hasResult |-> hasResult, result |-> result]

YahooResponses ==
  {YahooResponse(TRUE, FALSE, <<>>),
   YahooResponse(FALSE, FALSE, <<>>),
   YahooResponse(FALSE, TRUE, <<>>),
   YahooResponse(FALSE, TRUE,
     <<Quote("AAPL", Some(15000), None, None, None)
         @@ [longName |-> Some("Apple Inc."), shortName |-> Some("Apple"),
             currency |-> Some("USD"), marketCap |-> Some(2500000),
             regularMarketVolume |-> Some(123456700),
             fiftyTwoWeekHigh |-> Some(19950), regularMarketDayLow |-> Some(14805)]>>),
   YahooResponse(FALSE, TRUE,
     <<Quote("aapl", None, Some(15000), Some(14900), Some(14800))
         @@ [shortName |-> Some("Apple"), marketCap |-> Some(1500)],
       Quote("", Some(100), None, None, None),
       Quote("MSFT", Some(5000), None, None, Some(4900))
         @@ [marketCap |-> Some(999), regularMarketVolume |-> Some(0)]>>)}

\* for (const quote of result) if (quote?.symbol) quoteMap.set(symbol.toUpperCase(), quote)
RECURSIVE yahooQuoteMap(_, _)
yahooQuoteMap(result, map) ==
  IF Len(result) = 0 THEN map
  ELSE yahooQuoteMap(Tail(result),
         IF Head(result).symbol # ""
           THEN MapSet(map, toUpperCase(Head(result).symbol), Head(result))
           ELSE map)

\* a Stooq answer: the number of lines of the CSV text and, of its record,
\* the symbol and close cells ("" when the column is missing or reads N/A)
StooqResponse(rejected, lineCount, symbol, close) ==
  [rejected |-> rejected, lineCount |-> lineCount, symbol |-> symbol, close |-> close]

StooqResponses(symbol, candidate) ==
  IF symbol = "AAPL" /\ candidate = 1
    THEN {StooqResponse(TRUE, 0, "", ""), StooqResponse(FALSE, 2, "AAPL", "N/D")}
  ELSE IF symbol = "AAPL"
    THEN {StooqResponse(FALSE, 1, "", ""), StooqResponse(FALSE, 2, "AAPL.US", "150.00")}
  ELSE IF symbol = "MSFT" /\ candidate = 1
    THEN {StooqResponse(FALSE, 2, "MSFT", ""), StooqResponse(FALSE, 2, "MSFT", "50")}
  ELSE IF symbol = "MSFT"
    THEN {StooqResponse(TRUE, 0, "", "")}
  ELSE {StooqResponse(FALSE, 1, "", "")}

\* one turn of the candidates loop of fetchStooqQuote: None to try the next
\* candidate (continue, or the empty catch), else the Quote returned
stooqCandidate(symbol, response) ==
  IF response.rejected THEN None
  ELSE IF response.lineCount < 2 THEN None
  ELSE IF response.symbol = "" \/ response.close = "" THEN None
  ELSE Some(Quote(normalizeSymbol(symbol), parseNumber(response.close),
                  None, None, None))

StooqCandidates == 2

(***************************************************************************)
(* Errors and notices                                                      *)
(***************************************************************************)
Error(message, origin) == [message |-> message, origin |-> origin]

RequestFailed(origin) == Error("request failed", origin)

UnexpectedResponse(origin) == Error("Unexpected response from Yahoo Finance", origin)

FailedToFetch == Error("Failed to fetch quotes", "fetchQuotes")

NoEditorNotice == "No active markdown editor"

NoKeyNotice == "Set your Finnhub API key in plugin settings"

NoTableNotice == "No markdown table found"

MissingColumnNotice == "Table must include a Ticker/Fund column and a Shares column"

NoTickersNotice == "No tickers found in the table"

FetchErrorNotice == "Error: couldn't retrieve stock information"

NoQuotesNotice == "No quotes returned for table"

UpdatedNotice == "Updated portfolio table"

\* `Updated table. Add column(s): ${missingColumns.join(", ")} to populate them.`
successNotice(cols) ==
  LET missing == (IF cols.price = -1 THEN <<"Current Price">> ELSE <<>>)
                   \o (IF cols.allocation = -1 THEN <<"Allocation">> ELSE <<>>)
  IN  IF Len(missing) > 0
        THEN "Updated table. Add column(s): " \o join(missing, ", ")
               \o " to populate them."
        ELSE UpdatedNotice

(***************************************************************************)
(* The documents the command is run on                                     *)
(***************************************************************************)
MaxRows == 2

Headers ==
  {"| Ticker | Shares | Current Price | Value | Allocation |",
   "|symbol|QTY|Market Value|",
   "| Fund | Price |"}

SeparatorLine == "|---|:---:|---|---|---|"

RowPool ==
  {"| AAPL | 10 | | | |",
   "| MSFT | 10 |",
   "| goog | 5 | 1.00 | 2.00 | 3.00 |",
   "| AAPL | -5 | n/a | | 9 |",
   "|  | 3 |"}

RowChoices == UNION {[1..n -> RowPool] : n \in 0..MaxRows}

\* what surrounds the table, and whether the text is the selection
Layout(before, after, selected) ==
  [before |-> before, after |-> after, selected |-> selected]

Layouts ==
  {Layout(<<>>, <<>>, FALSE),
   Layout(<<"# Portfolio">>, <<"", "a|b">>, FALSE),
   Layout(<<"# Portfolio">>, <<"", "a|b">>, TRUE)}

TableDocument(layout, h, rows) ==
  join(layout.before \o <<h, SeparatorLine>> \o rows \o layout.after, "\n")

\* texts in which the locator finds no table
PlainDocuments ==
  {"no table here",
   "| Ticker | Shares |\n| AAPL | 10 |",
   "| Ticker | Shares |\n|--|--|\n| AAPL | 10 |",
   "| Ticker | Shares |\n\n|---|---|"}

\* The editor: the buffer is before \o sel \o after, sel being the selection.
Editor(before, sel, after) == [before |-> before, sel |-> sel, after |-> after]

EditorOn(doc, selected) ==
  IF selected THEN Editor("intro\n", doc, "\noutro") ELSE Editor("", "", doc)

Editors ==
  {EditorOn(TableDocument(layout, h, rows), layout.selected) :
     layout \in Layouts, h \in Headers, rows \in RowChoices}
    \cup {EditorOn(doc, selected) : doc \in PlainDocuments, selected \in BOOLEAN}

\* Texts for the locator, the row parser and the column roles: a header line,
\* a line in the separator's place and rows, between a prefix and a suffix.
MaxTextRows == 1

TextHeaders ==
  {"| Ticker | Shares | Price |",
   "|  ticker  |QTY| Alloc % |",
   "SYMBOL | Units | Value",
   "| Fund | Symbol | Price |",
   "| Name | Shares |"}

TextSeparators ==
  {"|---|---|---|", ":---: | ----", "|--|--|--|", "|---|", "| a | b |"}

TextDocuments ==
  {join(pre \o <<h, s>> \o rows \o post, "\n") :
     pre \in {<<>>, <<"a|b">>, <<"note", "">>},
     h \in TextHeaders,
     s \in TextSeparators,
     rows \in UNION {[1..n -> {"| AAPL | 10 |", "| msft | 2 | x |"}] :
                       n \in 0..MaxTextRows},
     post \in {<<>>, <<"x|y">>,
               <<"", "| Fund | Units |", "|---|---|", "| MSFT | 1 |">>}}

getValue(ed) == ed.before \o ed.sel \o ed.after

getSelection(ed) == ed.sel

\* the selection is replaced and the cursor left after the inserted text
replaceSelection(ed, text) == Editor(ed.before \o text, "", ed.after)

setValue(ed, text) == Editor("", "", text)

(***************************************************************************)
(* State                                                                   *)
(***************************************************************************)
VARIABLES
  variant,         \* "finnhub" (src/src/main.ts) or "batch" (src/unnamed/part_000)
  apiKey,          \* settings.finnhubApiKey is not empty
  editor,          \* the editor buffer and its selection
  pc,              \* "idle", "waiting" (suspended at an await), "done"
  selection,       \* the locals of updatePortfolioTable, under their names
  targetText,
  lines,
  tableStart,
  tableEnd,
  header,
  tickerIndex,
  sharesIndex,
  priceIndex,
  valueIndex,
  allocationIndex,
  dataRows,
  symbols,
  inflight,        \* the requests sent and not yet answered
  quoteMap,        \* the QuoteMap being built, then the one returned
  lastError,       \* let lastError of the batch fetchQuotes
  fetched,         \* "no", "returned" or "raised": how fetchQuotes ended
  startValue,      \* the buffer when the invocation started
  trace,           \* the requests, responses and buffer writes, in order
  writes,          \* the calls of setValue / replaceSelection
  notices,         \* the notices shown
  consoleErrors,   \* the errors handed to console.error
  modalTicker,     \* this.ticker and this.field of the single-value modal,
  modalField       \* once submitted

config == <<variant, apiKey>>

located == <<tableStart, tableEnd, header>>

indices == <<tickerIndex, sharesIndex, priceIndex, valueIndex, allocationIndex>>

locals == <<selection, targetText, lines, located, indices, dataRows, symbols>>

fetching == <<inflight, quoteMap, lastError, fetched>>

observed == <<trace, writes, consoleErrors>>

modal == <<modalTicker, modalField>>

vars ==
  <<config, editor, pc, locals, fetching, startValue, observed, notices, modal>>

Request(provider, attempt, index) ==
  [provider |-> provider, attempt |-> attempt, index |-> index]

Event(kind, request, ok) ==
  [kind |-> kind, provider |-> request.provider, attempt |-> request.attempt,
   index |-> request.index, ok |-> ok]

WriteEvent == Event("write", Request("editor", 0, 0), TRUE)

\* no invocation has started
Fresh ==
  /\ pc = "idle"
  /\ selection = ""
  /\ targetText = ""
  /\ lines = <<>>
  /\ tableStart = -1
  /\ tableEnd = -1
  /\ header = <<>>
  /\ tickerIndex = -1
  /\ sharesIndex = -1
  /\ priceIndex = -1
  /\ valueIndex = -1
  /\ allocationIndex = -1
  /\ dataRows = <<>>
  /\ symbols = <<>>
  /\ inflight = {}
  /\ quoteMap = EmptyMap
  /\ lastError = None
  /\ fetched = "no"
  /\ startValue = ""
  /\ trace = <<>>
  /\ writes = <<>>
  /\ notices = <<>>
  /\ consoleErrors = <<>>
  /\ modalTicker = ""
  /\ modalField = ""

Init ==
  /\ variant \in {"finnhub", "batch"}
  /\ apiKey \in (IF variant = "finnhub" THEN BOOLEAN ELSE {FALSE})
  /\ editor \in Editors
  /\ Fresh

\* the command run on the texts of TextDocuments
InitText ==
  /\ variant \in {"finnhub", "batch"}
  /\ apiKey \in (IF variant = "finnhub" THEN BOOLEAN ELSE {FALSE})
  /\ editor \in {EditorOn(doc, FALSE) : doc \in TextDocuments}
  /\ Fresh

(***************************************************************************)
(* updatePortfolioTable up to its await                                    *)
(***************************************************************************)
\* new Notice(...); return
Return(notice) ==
  /\ pc' = "done"
  /\ notices' = Append(notices, notice)
  /\ UNCHANGED <<config, modal, editor, fetching, observed>>

\* the ribbon icon with no active markdown view: editor is null
InvokeNoEditor ==
  /\ pc = "idle"
  /\ startValue' = getValue(editor)
  /\ Return(NoEditorNotice)
  /\ UNCHANGED locals

\* if (!this.settings.finnhubApiKey)
InvokeNoKey ==
  /\ pc = "idle"
  /\ variant = "finnhub" /\ ~apiKey
  /\ startValue' = getValue(editor)
  /\ Return(NoKeyNotice)
  /\ UNCHANGED locals

\* tableStart === -1 || tableEnd === -1
noTable(start, end) == start = -1 \/ end = -1

\* requiredColumnMissing with && for ||
requiredColumnMissing_Both(ticker, shares) == ticker = -1 /\ shares = -1

\* tickerIndex === -1 || sharesIndex === -1
requiredColumnMissing(ticker, shares) == ticker = -1 \/ shares = -1

\* from const selection = editor.getSelection() to the end of the locator loop
Locate ==
  /\ pc = "idle"
  /\ variant = "finnhub" => apiKey
  /\ startValue' = getValue(editor)
  /\ selection' = getSelection(editor)
  /\ targetText' = IF selection' # "" THEN selection' ELSE getValue(editor)
  /\ lines' = split(targetText', "\n")
  /\ tableStart' = locateStart(lines')
  /\ tableEnd' = locateEnd(lines', tableStart')
  /\ header' = locateHeader(lines', tableStart')

\* the five headerIndex([...]) calls
ResolveColumns ==
  /\ tickerIndex' = headerIndex(header', TickerNames)
  /\ sharesIndex' = headerIndex(header', SharesNames)
  /\ priceIndex' = headerIndex(header', PriceNames)
  /\ valueIndex' = headerIndex(header', ValueNames)
  /\ allocationIndex' = headerIndex(header', AllocationNames)

\* const dataRows = ...; const symbols = ...
ReadRows ==
  /\ dataRows' = sliceRows(lines', tableStart', tableEnd')
  /\ symbols' = rowSymbols(dataRows', tickerIndex')

InvokeNoTable ==
  /\ Locate
  /\ noTable(tableStart', tableEnd')
  /\ Return(NoTableNotice)
  /\ UNCHANGED <<indices, dataRows, symbols>>

InvokeMissingColumn ==
  /\ Locate
  /\ ~noTable(tableStart', tableEnd')
  /\ ResolveColumns
  /\ requiredColumnMissing(tickerIndex', sharesIndex')
  /\ Return(MissingColumnNotice)
  /\ UNCHANGED <<dataRows, symbols>>

InvokeNoTickers ==
  /\ Locate
  /\ ~noTable(tableStart', tableEnd')
  /\ ResolveColumns
  /\ ~requiredColumnMissing(tickerIndex', sharesIndex')
  /\ ReadRows
  /\ Len(symbols') = 0
  /\ Return(NoTickersNotice)

\* the first request of fetchQuotes: Finnhub for the first symbol, or the
\* first Yahoo URL for all symbols at once
firstRequest(v) ==
  IF v = "finnhub" THEN Request("finnhub", 1, 1) ELSE Request("yahoo", 1, 0)

\* quotes = await fetchQuotes(symbols): the call runs to its first await
InvokeFetch ==
  /\ Locate
  /\ ~noTable(tableStart', tableEnd')
  /\ ResolveColumns
  /\ ~requiredColumnMissing(tickerIndex', sharesIndex')
  /\ ReadRows
  /\ Len(symbols') > 0
  /\ pc' = "waiting"
  /\ inflight' = inflight \cup {firstRequest(variant)}
  /\ trace' = Append(trace, Event("request", firstRequest(variant), TRUE))
  /\ UNCHANGED <<config, modal, editor, quoteMap, lastError, fetched, writes, notices,
                 consoleErrors>>

(***************************************************************************)
(* updatePortfolioTable after fetchQuotes has ended                        *)
(***************************************************************************)
EditorCall(method, text) == [method |-> method, text |-> text]

\* writeCalls with the else left out: setValue runs after replaceSelection
writeCalls_NoElse(sel, text) ==
  (IF sel # "" THEN <<EditorCall("replaceSelection", text)>> ELSE <<>>)
    \o <<EditorCall("setValue", text)>>

\* if (selection) editor.replaceSelection(updatedText);
\* else editor.setValue(updatedText);
writeCalls(sel, text) ==
  IF sel # "" THEN <<EditorCall("replaceSelection", text)>>
  ELSE <<EditorCall("setValue", text)>>

RECURSIVE applyCalls(_, _)
applyCalls(ed, calls) ==
  IF Len(calls) = 0 THEN ed
  ELSE applyCalls(IF Head(calls).method = "replaceSelection"
                    THEN replaceSelection(ed, Head(calls).text)
                    ELSE setValue(ed, Head(calls).text),
                  Tail(calls))

\* if (quotes.size === 0): main.ts has this check, part_000 has none
noQuotesReturned(v, quotes) == v = "finnhub" /\ DOMAIN quotes = {}

\* fetchQuotes returned `quotes`: the rest of updatePortfolioTable runs
Resume(quotes, tr) ==
  /\ pc' = "done"
  /\ fetched' = "returned"
  /\ quoteMap' = quotes
  /\ inflight' = {}
  /\ consoleErrors' = consoleErrors
  /\ IF noQuotesReturned(variant, quotes)
       THEN /\ notices' = Append(notices, NoQuotesNotice)
            /\ trace' = tr
            /\ UNCHANGED <<editor, writes>>
       ELSE LET cols  == Columns(tickerIndex, sharesIndex, priceIndex, valueIndex,
                                     allocationIndex)
                rows  == updatedRows(header, cols, dataRows, quotes)
                table == updatedTableLines(header, LineAt(lines, tableStart + 1), rows)
                calls == writeCalls(selection,
                                    updatedText(lines, tableStart, tableEnd, table))
            IN  /\ editor' = applyCalls(editor, calls)
                /\ writes' = writes \o calls
                /\ trace' = tr \o [k \in 1..Len(calls) |-> WriteEvent]
                /\ notices' = Append(notices, successNotice(cols))

\* fetchQuotes threw `err`: the catch of updatePortfolioTable
Raise(err, tr) ==
  /\ pc' = "done"
  /\ fetched' = "raised"
  /\ quoteMap' = quoteMap
  /\ inflight' = {}
  /\ consoleErrors' = Append(consoleErrors, err)
  /\ notices' = Append(notices, FetchErrorNotice)
  /\ trace' = tr
  /\ UNCHANGED <<editor, writes>>

\* fetchQuotes goes on to its next await, having sent the requests `next`
Continue(map, answered, next, tr) ==
  /\ pc' = pc
  /\ quoteMap' = map
  /\ inflight' = (inflight \ {answered}) \cup next
  /\ trace' = tr \o [k \in 1..Cardinality(next) |->
                       Event("request", CHOOSE r \in next : TRUE, TRUE)]
  /\ UNCHANGED <<fetched, editor, writes, notices, consoleErrors>>

(***************************************************************************)
(* fetchQuotes                                                             *)
(***************************************************************************)
\* symbols.map(normalizeSymbol).filter(Boolean)
cleanedSymbols(syms) == filterBoolean([k \in 1..Len(syms) |-> normalizeSymbol(syms[k])])

\* for (const symbol of cleanedSymbols) await fetchFinnhubQuote(symbol, apiKey):
\* the request sent after the answer to `req`, none after the last symbol
finnhubNext(req, n) ==
  IF req.index < n THEN {Request("finnhub", 1, req.index + 1)} ELSE {}

\* main.ts: a response arrives for the Finnhub request in flight
FinnhubRespond ==
  /\ pc = "waiting"
  /\ \E req \in inflight :
       /\ req.provider = "finnhub"
       /\ LET cleaned == cleanedSymbols(symbols)
              symbol  == cleaned[req.index]
          IN  \E response \in FinnhubResponses(symbol) :
                LET quote == IF response.rejected THEN None
                             ELSE fetchFinnhubQuote(symbol, response)
                    map   == IF quote # None THEN MapSet(quoteMap, symbol, quote[1])
                             ELSE quoteMap
                    tr    == Append(trace, Event("response", req, quote # None))
                    next  == finnhubNext(req, Len(cleaned))
                IN  IF response.rejected THEN Raise(RequestFailed("finnhub"), tr)
                    ELSE IF next # {} THEN Continue(map, req, next, tr)
                    ELSE Resume(map, tr)
  /\ UNCHANGED <<config, modal, locals, lastError, startValue>>

YahooUrls == 2

\* the requestUrl / response.json / missing-result failures of one URL
yahooFailed(response) == response.rejected \/ ~response.hasResult

yahooError(response, attempt) ==
  LET origin == IF attempt = 1 THEN "query1" ELSE "query2"
  IN  IF response.rejected THEN RequestFailed(origin) ELSE UnexpectedResponse(origin)

\* caught keeping the first error: lastError ??= e
caught_KeepsFirst(previous, e) == IF previous = None THEN Some(e) ELSE previous

\* catch (e) { lastError = e; }
caught(previous, e) == Some(e)

\* after a failed URL: the next URL, or fetchQuotesFromStooq's first request
yahooNext(req) ==
  IF req.attempt < YahooUrls THEN {Request("yahoo", req.attempt + 1, 0)}
  ELSE {Request("stooq", 1, 1)}

\* part_000: a response arrives for the Yahoo request in flight
YahooRespond ==
  /\ pc = "waiting"
  /\ \E req \in inflight :
       /\ req.provider = "yahoo"
       /\ \E response \in YahooResponses :
            LET tr == Append(trace, Event("response", req, ~yahooFailed(response)))
            IN  IF yahooFailed(response)
                  THEN /\ lastError' = caught(lastError, yahooError(response, req.attempt))
                       /\ Continue(EmptyMap, req, yahooNext(req), tr)
                  ELSE /\ lastError' = lastError
                       /\ Resume(yahooQuoteMap(response.result, EmptyMap), tr)
  /\ UNCHANGED <<config, modal, locals, startValue>>

\* stooqNext without the early return: every candidate is requested
stooqNext_AllCandidates(req, quote, n) ==
  IF req.attempt < StooqCandidates
    THEN {Request("stooq", req.attempt + 1, req.index)}
  ELSE IF req.index < n THEN {Request("stooq", 1, req.index + 1)}
  ELSE {}

\* the request after a Stooq answer: the next candidate of the symbol when
\* this one gave no quote, else the first candidate of the next symbol
stooqNext(req, quote, n) ==
  IF quote = None /\ req.attempt < StooqCandidates
    THEN {Request("stooq", req.attempt + 1, req.index)}
  ELSE IF req.index < n THEN {Request("stooq", 1, req.index + 1)}
  ELSE {}

\* if (lastError instanceof Error) throw lastError;
\* throw new Error("Failed to fetch quotes");
thrownError(last) == IF last # None THEN last[1] ELSE FailedToFetch

\* part_000: a response arrives for the Stooq request in flight
StooqRespond ==
  /\ pc = "waiting"
  /\ \E req \in inflight :
       /\ req.provider = "stooq"
       /\ LET cleaned == cleanedSymbols(symbols)
              symbol  == cleaned[req.index]
          IN  \E response \in StooqResponses(symbol, req.attempt) :
                LET quote == stooqCandidate(symbol, response)
                    map   == IF quote # None
                               THEN MapSet(quoteMap, normalizeSymbol(symbol), quote[1])
                               ELSE quoteMap
                    tr    == Append(trace, Event("response", req, quote # None))
                    next  == stooqNext(req, quote, Len(cleaned))
                IN  IF next # {} THEN Continue(map, req, next, tr)
                    ELSE IF DOMAIN map # {} THEN Resume(map, tr)
                    ELSE Raise(thrownError(lastError), tr)
  /\ UNCHANGED <<config, modal, locals, lastError, startValue>>

Next ==
  \/ InvokeNoEditor
  \/ InvokeNoKey
  \/ InvokeNoTable
  \/ InvokeMissingColumn
  \/ InvokeNoTickers
  \/ InvokeFetch
  \/ FinnhubRespond
  \/ YahooRespond
  \/ StooqRespond

Spec == Init /\ [][Next]_vars

SpecText == InitText /\ [][Next]_vars

(***************************************************************************)
(* The buffer changed while updatePortfolioTable is suspended              *)
(***************************************************************************)
\* what the user types while `await fetchQuotes(...)` is pending
UserEditText == "\nTODO"

Contains(text, part) ==
  \E i \in 1..(Len(text) - Len(part) + 1) : SubSeq(text, i, i + Len(part) - 1) = part

\* The user puts the cursor at the end of the note and types: the selection
\* is given up and the text arrives at the end of the buffer. The invocation
\* keeps its locals (selection, targetText, lines) read before the await.
UserEdit ==
  /\ pc = "waiting"
  /\ ~Contains(getValue(editor), UserEditText)
  /\ editor' = Editor(getValue(editor) \o UserEditText, "", "")
  /\ UNCHANGED <<config, modal, pc, locals, fetching, startValue, observed, notices>>

NextInterleaved == Next \/ UserEdit

SpecInterleaved == Init /\ [][NextInterleaved]_vars

(***************************************************************************)
(* The single-value command: onSubmit(ticker, field) of its modal          *)
(***************************************************************************)
\* the keys of STOCK_FIELDS, the options of the modal's dropdown
STOCK_FIELDS ==
  {"bid", "ask", "previousClose", "marketCap", "volume", "fiftytwo_high",
   "fiftytwo_low", "dayRange_high", "dayRange_low", "name", "currency"}

\* quote[key]: undefined (None) for a property the quote does not carry
Prop(quote, key) == IF key \in DOMAIN quote THEN quote[key] ELSE None

\* const stockData = { name: quote.longName ?? quote.shortName ?? null, ... }
stockData(quote) ==
  [name          |-> IF Prop(quote, "longName") # None THEN Prop(quote, "longName")
                     ELSE Prop(quote, "shortName"),
   currency      |-> Prop(quote, "currency"),
   bid           |-> Prop(quote, "bid"),
   ask           |-> Prop(quote, "ask"),
   marketCap     |-> Prop(quote, "marketCap"),
   previousClose |-> Prop(quote, "regularMarketPreviousClose"),
   volume        |-> Prop(quote, "regularMarketVolume"),
   fiftytwo_high |-> Prop(quote, "fiftyTwoWeekHigh"),
   fiftytwo_low  |-> Prop(quote, "fiftyTwoWeekLow"),
   dayRange_high |-> Prop(quote, "regularMarketDayHigh"),
   dayRange_low  |-> Prop(quote, "regularMarketDayLow")]

\* stockData[field]: undefined (None) for a key stockData does not have
stockDataValue(quote, key) ==
  IF key \in DOMAIN stockData(quote) THEN stockData(quote)[key] ELSE None

RECURSIVE StripZeros(_)
StripZeros(digits) ==
  IF Len(digits) > 0 /\ At(digits, Len(digits)) = "0"
    THEN StripZeros(SubSeq(digits, 1, Len(digits) - 1))
  ELSE digits

RECURSIVE FixedDigits(_, _)
FixedDigits(n, k) ==
  IF k = 0 THEN "" ELSE FixedDigits(n \div 10, k - 1) \o DigitChar(n % 10)

\* the fraction part of a number printed without trailing zeros: f of 10^k
Fraction(f, k) ==
  LET digits == StripZeros(FixedDigits(f, k))
  IN  IF digits = "" THEN "" ELSE "." \o digits

\* String(value) of a number given in cents
numberToString(cents) ==
  (IF cents < 0 THEN "-" ELSE "")
    \o DigitsOf(Abs(cents) \div 100) \o Fraction(Abs(cents) % 100, 2)

\* value.toLocaleString("en-US") of a number given in cents
toLocaleString(cents) ==
  (IF cents < 0 THEN "-" ELSE "")
    \o Grouped(DigitsOf(Abs(cents) \div 100)) \o Fraction(Abs(cents) % 100, 2)

\* formatLongNumber(n) of n given in millions:
\*   n < 1e9: +(n / 1e6).toFixed(3) + "M",  n < 1e12: +(n / 1e9).toFixed(3) + "B",
\*   else +(n / 1e12).toFixed(1) + "T"
formatLongNumber(millions) ==
  IF millions < 1000
    THEN (IF millions < 0 THEN "-" ELSE "") \o DigitsOf(Abs(millions)) \o "M"
  ELSE IF millions < 1000000
    THEN DigitsOf(millions \div 1000) \o Fraction(millions % 1000, 3) \o "B"
  ELSE LET tenths == RoundDiv(millions, 100000)
       IN  DigitsOf(tenths \div 10) \o Fraction(tenths % 10, 1) \o "T"

\* singleValueOutput with String(value) for every field
singleValueOutput_Plain(key, value) ==
  IF key \in {"name", "currency"} THEN value ELSE numberToString(value)

\* the text inserted for a value that is neither null nor undefined; of the
\* fields of type Quote, name and currency are strings, the others numbers
singleValueOutput(key, value) ==
  IF key = "marketCap" THEN formatLongNumber(value)
  ELSE IF key = "volume" THEN toLocaleString(value)
  ELSE IF key \in {"name", "currency"} THEN value
  ELSE numberToString(value)

NoDataNotice(key) == "No data available for " \o key

\* logError("Symbol not found") / logError("No data returned for symbol")
SymbolNotFound(v) ==
  IF v = "finnhub" THEN "No data returned for symbol" ELSE "Symbol not found"

\* how `await fetchQuotes([ticker])` ends: with a QuoteMap or with an error
Returned(map) == [raised |-> FALSE, map |-> map, error |-> FailedToFetch]

Raised(err) == [raised |-> TRUE, map |-> EmptyMap, error |-> err]

\* main.ts fetchQuotes for one symbol: one Finnhub request
finnhubOutcomes(symbol) ==
  {IF response.rejected THEN Raised(RequestFailed("finnhub"))
   ELSE LET quote == fetchFinnhubQuote(symbol, response)
        IN  Returned(IF quote # None THEN MapSet(EmptyMap, symbol, quote[1])
                     ELSE EmptyMap) :
     response \in FinnhubResponses(symbol)}

\* part_000 fetchQuotes for one symbol: the two Yahoo URLs, then the two
\* Stooq candidates, then the error of the last URL
batchOutcome(symbol, y1, y2, s1, s2) ==
  IF ~yahooFailed(y1) THEN Returned(yahooQuoteMap(y1.result, EmptyMap))
  ELSE IF ~yahooFailed(y2) THEN Returned(yahooQuoteMap(y2.result, EmptyMap))
  ELSE LET first == stooqCandidate(symbol, s1)
           quote == IF first # None THEN first ELSE stooqCandidate(symbol, s2)
           last  == caught(caught(None, yahooError(y1, 1)), yahooError(y2, 2))
       IN  IF quote # None
             THEN Returned(MapSet(EmptyMap, normalizeSymbol(symbol), quote[1]))
           ELSE Raised(thrownError(last))

\* fetchQuotes(symbols) of either variant, for the one symbol of the modal
fetchQuotesOutcomes(v, syms) ==
  LET cleaned == cleanedSymbols(syms)
  IN  IF Len(cleaned) = 0 THEN {Returned(EmptyMap)}
      ELSE IF v = "finnhub" THEN finnhubOutcomes(cleaned[1])
      ELSE {batchOutcome(cleaned[1], y1, y2, s1, s2) :
              y1 \in YahooResponses, y2 \in YahooResponses,
              s1 \in StooqResponses(cleaned[1], 1),
              s2 \in StooqResponses(cleaned[1], 2)}

\* what the user may have typed into the modal's ticker field
SingleValueTickers == {"AAPL", " msft", "goog", ""}

SingleValueEditors == {Editor("Price: ", "AAPL", " today"), Editor("", "", "Cap: ")}

InitSingleValue ==
  /\ variant \in {"finnhub", "batch"}
  /\ apiKey \in (IF variant = "finnhub" THEN BOOLEAN ELSE {FALSE})
  /\ editor \in SingleValueEditors
  /\ Fresh

\* "Get value" is clicked: onSubmit(this.ticker, this.field) runs to its await
SingleValueSubmit ==
  /\ pc = "idle"
  /\ \E t \in SingleValueTickers, key \in STOCK_FIELDS :
       /\ modalTicker' = t
       /\ modalField' = key
  /\ startValue' = getValue(editor)
  /\ selection' = getSelection(editor)
  /\ IF variant = "finnhub" /\ ~apiKey
       THEN /\ pc' = "done"
            /\ notices' = Append(notices, NoKeyNotice)
       ELSE /\ pc' = "submitted"
            /\ notices' = notices
  /\ UNCHANGED <<config, editor, targetText, lines, located, indices, dataRows,
                 symbols, fetching, observed>>

\* logError(msg)
logError(msg) ==
  /\ consoleErrors' = Append(consoleErrors, msg)
  /\ notices' = Append(notices, FetchErrorNotice)
  /\ UNCHANGED <<editor, writes>>

\* fetchQuotes([ticker]) has ended: the rest of onSubmit, its catch included
SingleValueSettle ==
  /\ pc = "submitted"
  /\ \E outcome \in fetchQuotesOutcomes(variant, <<modalTicker>>) :
       LET found == MapGet(outcome.map, normalizeSymbol(modalTicker))
           value == IF found = None THEN None
                    ELSE stockDataValue(found[1], modalField)
       IN  /\ fetched' = IF outcome.raised THEN "raised" ELSE "returned"
           /\ quoteMap' = outcome.map
           /\ IF outcome.raised THEN logError(outcome.error.message)
              ELSE IF found = None THEN logError(SymbolNotFound(variant))
              ELSE IF value # None
                THEN LET output == singleValueOutput(modalField, value[1])
                     IN  /\ editor' = replaceSelection(editor, output)
                         /\ writes' = Append(writes,
                                             EditorCall("replaceSelection", output))
                         /\ UNCHANGED <<notices, consoleErrors>>
              ELSE /\ notices' = Append(notices, NoDataNotice(modalField))
                   /\ UNCHANGED <<editor, writes, consoleErrors>>
  /\ pc' = "done"
  /\ UNCHANGED <<config, modal, locals, inflight, lastError, startValue, trace>>

NextSingleValue == SingleValueSubmit \/ SingleValueSettle

SpecSingleValue == InitSingleValue /\ [][NextSingleValue]_vars

(***************************************************************************)
(* Properties                                                              *)
(***************************************************************************)
ErrorNotices ==
  {NoEditorNotice, NoKeyNotice, NoTableNotice, MissingColumnNotice,
   NoTickersNotice, FetchErrorNotice, NoQuotesNotice}

Done == pc = "done"

\* the invocation ended with the table updated
Succeeded == Done /\ fetched = "returned" /\ notices[Len(notices)] \notin ErrorNotices

\* the lines of the text handed to the k-th editor call
WrittenLines(k) == split(writes[k].text, "\n")

\* the data rows of the written table, parsed back
WrittenRows == sliceRows(WrittenLines(1), tableStart, tableEnd)

\* a row of the source table with empty cells appended up to the header width
Padded(row) == row \o [i \in 1..(Len(header) - Len(row)) |-> ""]

\* the row's ticker has no entry in the QuoteMap
Unresolved(row) == normalizeSymbol(CellAt(row, tickerIndex)) \notin DOMAIN quoteMap

\* price x shares of a row, in cents; 0 when it is unknown
ExpectedValue(row) ==
  IF Unresolved(row) THEN 0
  ELSE LET price  == quotePrice(quoteMap[normalizeSymbol(CellAt(row, tickerIndex))])
           shares == parseNumber(CellAt(row, sharesIndex))
       IN  IF price = None \/ shares = None THEN 0 ELSE (price[1] * shares[1]) \div 100

RECURSIVE SumValues(_)
SumValues(rows) ==
  IF Len(rows) = 0 THEN 0 ELSE ExpectedValue(Head(rows)) + SumValues(Tail(rows))

ExpectedTotal == SumValues(dataRows)

\* C1: the written text has as many lines as the text read; every line outside
\* [tableStart, tableEnd] and the separator line are the lines read.
C1_OutsideTableUntouched ==
  Done =>
    \A k \in 1..Len(writes) :
      \A old \in {split(targetText, "\n")}, new \in {WrittenLines(k)} :
        /\ Len(new) = Len(old)
        /\ \A i \in 0..(Len(old) - 1) :
             (i < tableStart \/ i > tableEnd \/ i = tableStart + 1)
               => LineAt(new, i) = LineAt(old, i)

C1_Witness ==
  /\ Succeeded
  /\ Len(writes) = 1
  /\ tableStart > 0
  /\ tableEnd < Len(lines) - 1
  /\ tableEnd > tableStart + 1
  /\ writes[1].text # targetText

\* C2: an invocation that ends with an error notice shows that one notice and
\* never calls setValue or replaceSelection, so the buffer is as it was at the
\* start; a table without a shares column ends with the required-column notice.
C2_ErrorsLeaveBuffer ==
  Done =>
    /\ Len(notices) = 1
    /\ notices[1] \in ErrorNotices =>
         /\ writes = <<>>
         /\ getValue(editor) = startValue
         /\ \A i \in 1..Len(trace) : trace[i].kind # "write"
    /\ (tableStart # -1 /\ headerIndex(header, SharesNames) = -1) =>
         /\ notices = <<MissingColumnNotice>>
         /\ writes = <<>>
         /\ trace = <<>>

C2_Witness ==
  /\ Done
  /\ tableStart # -1
  /\ tickerIndex # -1
  /\ sharesIndex = -1
  /\ notices = <<MissingColumnNotice>>
  /\ getValue(editor) = startValue

\* C3: the buffer is written at most once, exactly once on success, by one
\* setValue or replaceSelection of the whole target, and only when every
\* request has been answered; no request follows a write.
C3_OneWriteAfterFetch ==
  /\ Len(writes) <= 1
  /\ Succeeded => Len(writes) = 1
  /\ ~Done => writes = <<>>
  /\ Len(writes) = 1 =>
       /\ inflight = {}
       /\ writes[1].method = IF selection # "" THEN "replaceSelection" ELSE "setValue"
       /\ selection = "" => getValue(editor) = writes[1].text
       /\ selection # "" => getValue(editor) = "intro\n" \o writes[1].text \o "\noutro"
       /\ trace[Len(trace)].kind = "write"
       /\ \A i \in 1..(Len(trace) - 1) :
            /\ trace[i].kind # "write"
            /\ trace[i].kind = "request" =>
                 /\ i + 1 < Len(trace)
                 /\ trace[i + 1].kind = "response"
                 /\ trace[i + 1].provider = trace[i].provider
                 /\ trace[i + 1].attempt = trace[i].attempt
                 /\ trace[i + 1].index = trace[i].index

C3_Witness ==
  /\ Succeeded
  /\ Len(writes) = 1
  /\ selection # ""
  /\ Len(trace) >= 7

\* C4 as claimed: every row without a quote keeps all its cells, padding aside.
C4_UnresolvedRowsUntouched ==
  Succeeded =>
    \A new \in {WrittenRows} :
      \A k \in 1..Len(dataRows) :
        Unresolved(dataRows[k]) => new[k] = Padded(dataRows[k])

\* C4 amended: a row without a quote keeps every cell but its allocation
\* cell, padding aside; its allocation cell becomes "0.00" when the table has
\* an allocation column and the total is positive, and is kept otherwise.
C4_UnresolvedRowsKeepAllButAllocation ==
  Succeeded =>
    \A new \in {WrittenRows} :
      \A k \in 1..Len(dataRows) :
        Unresolved(dataRows[k]) =>
          \A old \in {Padded(dataRows[k])} :
            /\ Len(new[k]) = Len(old)
            /\ \A i \in 1..Len(old) :
                 new[k][i] = IF i = allocationIndex + 1 /\ ExpectedTotal > 0
                               THEN "0.00" ELSE old[i]

C4_Witness ==
  /\ Succeeded
  /\ allocationIndex # -1
  /\ ExpectedTotal > 0
  /\ \E k \in 1..Len(dataRows) :
       /\ Unresolved(dataRows[k])
       /\ Len(dataRows[k]) < Len(header)
  /\ \E k \in 1..Len(dataRows) : ~Unresolved(dataRows[k])

\* the table and the QuoteMap of the example of C5
C5_Example ==
  /\ Succeeded
  /\ header = <<"Ticker", "Shares", "Current Price", "Value", "Allocation">>
  /\ dataRows = << <<"AAPL", "10", "", "", "">> >>
  /\ "AAPL" \in DOMAIN quoteMap
  /\ quoteMap["AAPL"].regularMarketPrice = Some(15000)

\* C5 as claimed: the example row becomes AAPL, 10, 150.00, 1500.00 and an
\* empty allocation cell.
C5_ExampleRowAsClaimed ==
  C5_Example => WrittenRows = << <<"AAPL", "10", "150.00", "1500.00", "">> >>

\* C5 amended: the example row becomes AAPL, 10, 150.00, 1,500.00, 100.00:
\* the value is grouped by thousands and the allocation cell, the total being
\* positive, holds the row's 100 percent.
C5_ExampleRow ==
  C5_Example => WrittenRows = << <<"AAPL", "10", "150.00", "1,500.00", "100.00">> >>

C5_Witness == C5_Example

\* C6: allocation cells are written exactly when the header has an allocation
\* column and the total of the row values is positive, each as its row's
\* percentage of the total with two decimals (1500 and 500 give 75.00 and
\* 25.00); otherwise every allocation cell is kept.
C6_AllocationCells ==
  Succeeded =>
    \A new \in {WrittenRows}, total \in {ExpectedTotal} :
      /\ \A k \in 1..Len(dataRows) :
           CellAt(new[k], allocationIndex) =
             IF allocationIndex # -1 /\ total > 0
               THEN formatNumber(RoundDiv(ExpectedValue(dataRows[k]) * 10000, total))
               ELSE CellAt(dataRows[k], allocationIndex)
      /\ (/\ allocationIndex # -1
          /\ Len(dataRows) = 2
          /\ ExpectedValue(dataRows[1]) = 150000
          /\ ExpectedValue(dataRows[2]) = 50000)
           => /\ CellAt(new[1], allocationIndex) = "75.00"
              /\ CellAt(new[2], allocationIndex) = "25.00"

C6_Witness ==
  /\ Succeeded
  /\ allocationIndex # -1
  /\ Len(dataRows) = 2
  /\ ExpectedValue(dataRows[1]) = 150000
  /\ ExpectedValue(dataRows[2]) = 50000
  /\ CellAt(WrittenRows[1], allocationIndex) = "75.00"

\* C7 as claimed: when fetchQuotes returns an empty QuoteMap, the command
\* shows the no-quotes notice, writes nothing and shows no success notice.
C7_EmptyMapIsAnError ==
  (Done /\ fetched = "returned" /\ DOMAIN quoteMap = {}) =>
    /\ notices = <<NoQuotesNotice>>
    /\ writes = <<>>

\* the trace holds the event of this kind for this request, with this outcome
Traced(kind, provider, attempt, index, ok) ==
  \E i \in 1..Len(trace) : trace[i] = Event(kind, Request(provider, attempt, index), ok)

\* both URLs of the batch provider have failed
BothBatchUrlsFailed ==
  /\ Traced("response", "yahoo", 1, 0, FALSE)
  /\ Traced("response", "yahoo", 2, 0, FALSE)

\* C8: in the batch variant, once both URLs of the batch provider have failed
\* the fallback provider is asked; an error reaches the caller only after
\* every candidate of every symbol was asked of the fallback and none gave a
\* quote, and that error is the one the batch provider raised.
C8_FallbackBeforeError ==
  variant = "batch" =>
    /\ BothBatchUrlsFailed => Traced("request", "stooq", 1, 1, TRUE)
    /\ fetched = "raised" =>
         /\ BothBatchUrlsFailed
         /\ \A k \in 1..Len(cleanedSymbols(symbols)) :
              \A c \in 1..StooqCandidates : Traced("response", "stooq", c, k, FALSE)
         /\ \A i \in 1..Len(trace) :
              (trace[i].kind = "response" /\ trace[i].provider = "stooq") => ~trace[i].ok
         /\ Len(consoleErrors) = 1
         /\ consoleErrors[1] \in {RequestFailed("query2"), UnexpectedResponse("query2")}
         /\ lastError = Some(consoleErrors[1])
         /\ writes = <<>>

C8_Witness ==
  /\ variant = "batch"
  /\ Done
  /\ fetched = "raised"
  /\ Len(cleanedSymbols(symbols)) >= 2
  /\ Traced("response", "stooq", 2, 2, FALSE)
  /\ consoleErrors = <<UnexpectedResponse("query2")>>

\* C9 as claimed: fetchQuotes raises only if no request of the fetch gave a
\* quote; once a symbol has resolved at some provider it returns a map.
C9_RaisesOnlyIfNothingResolved ==
  fetched = "raised" =>
    \A i \in 1..Len(trace) : trace[i].kind = "response" => ~trace[i].ok

\* the event before position i of the trace is this answer
AnsweredBefore(i, provider, attempt, index, ok) ==
  /\ i > 1
  /\ trace[i - 1] = Event("response", Request(provider, attempt, index), ok)

\* C10: at most one request is in flight; a request is sent only when the one
\* before it has been answered; symbols are asked in list order; the second
\* batch URL follows the failure of the first, the fallback provider the
\* failure of both, a symbol's second candidate the failure of its first, and
\* no candidate follows one that gave a quote.
C10_SequentialRequests ==
  /\ Cardinality(inflight) <= 1
  /\ \A i \in 1..Len(trace) :
       trace[i].kind = "request" =>
         \A r \in {trace[i]} :
           /\ i > 1 => trace[i - 1].kind = "response"
           /\ \A j \in 1..Len(trace) : (j # i /\ trace[j].kind = "request") =>
                <<trace[j].provider, trace[j].attempt, trace[j].index>>
                  # <<r.provider, r.attempt, r.index>>
           /\ r.provider = "finnhub" =>
                /\ variant = "finnhub"
                /\ r.attempt = 1
                /\ IF r.index = 1 THEN i = 1
                   ELSE \E ok \in BOOLEAN :
                          AnsweredBefore(i, "finnhub", 1, r.index - 1, ok)
           /\ r.provider = "yahoo" =>
                /\ variant = "batch"
                /\ IF r.attempt = 1 THEN i = 1
                   ELSE r.attempt = 2 /\ AnsweredBefore(i, "yahoo", 1, 0, FALSE)
           /\ r.provider = "stooq" =>
                /\ BothBatchUrlsFailed
                /\ r.index \in 1..Len(cleanedSymbols(symbols))
                /\ IF r.attempt = 2
                     THEN AnsweredBefore(i, "stooq", 1, r.index, FALSE)
                   ELSE IF r.index = 1
                     THEN AnsweredBefore(i, "yahoo", 2, 0, FALSE)
                   ELSE \/ AnsweredBefore(i, "stooq", 1, r.index - 1, TRUE)
                        \/ AnsweredBefore(i, "stooq", 2, r.index - 1, TRUE)
                        \/ AnsweredBefore(i, "stooq", 2, r.index - 1, FALSE)
  /\ \A i \in 1..Len(trace) :
       (trace[i].kind = "response" /\ trace[i].provider = "stooq" /\ trace[i].ok) =>
         \A j \in (i + 1)..Len(trace) :
           trace[j].kind = "request" => trace[j].index # trace[i].index

C10_Witness ==
  /\ variant = "batch"
  /\ Done
  /\ Traced("response", "stooq", 1, 1, TRUE)
  /\ Traced("request", "stooq", 1, 2, TRUE)
  /\ Traced("response", "stooq", 1, 2, FALSE)
  /\ Traced("request", "stooq", 2, 2, TRUE)

\* the locator has run in this invocation
Located == pc # "idle" /\ (notices = <<>> \/ notices[1] \notin {NoEditorNotice, NoKeyNotice})

\* the indices i at which a table starts: line i is a row, line i+1 a separator
TableStarts(ls) ==
  {i \in 0..(Len(ls) - 2) :
     /\ includes(LineAt(ls, i), "|")
     /\ ~isBlank(LineAt(ls, i))
     /\ isTableSeparator(LineAt(ls, i + 1))}

\* e is the last line of the maximal run of row lines that starts at i+2
EndsRun(ls, i, e) ==
  /\ e >= i + 1
  /\ e <= Len(ls) - 1
  /\ \A j \in (i + 2)..e : includes(LineAt(ls, j), "|") /\ ~isBlank(LineAt(ls, j))
  /\ e < Len(ls) - 1 => ~includes(LineAt(ls, e + 1), "|")

\* C11: tableStart is the smallest index of a row line followed by a separator
\* line and tableEnd the last line of the maximal run of row lines from
\* tableStart+2; header and rows are read from that table alone and no line
\* after it is rewritten; with no such index the no-table notice is shown.
C11_FirstTableLocated ==
  Located =>
    \A ls \in {split(targetText, "\n")} :
      \A starts \in {TableStarts(ls)} :
        IF starts = {}
          THEN /\ tableStart = -1
               /\ notices = <<NoTableNotice>>
               /\ writes = <<>>
          ELSE /\ tableStart \in starts
               /\ \A i \in starts : tableStart <= i
               /\ EndsRun(ls, tableStart, tableEnd)
               /\ header = splitRow(LineAt(ls, tableStart))
               /\ Len(dataRows) \in {0, tableEnd - tableStart - 1}
               /\ \A k \in 1..Len(dataRows) :
                    dataRows[k] = splitRow(LineAt(ls, tableStart + 1 + k))
               /\ NoTableNotice \notin {notices[k] : k \in 1..Len(notices)}
               /\ \A w \in 1..Len(writes) :
                    \A new \in {WrittenLines(w)} :
                      /\ Len(new) = Len(ls)
                      /\ \A j \in 0..(Len(ls) - 1) :
                           (j < tableStart \/ j > tableEnd)
                             => LineAt(new, j) = LineAt(ls, j)

\* a text with two tables, the first not at line 0, has been rewritten
C11_Witness ==
  /\ Succeeded
  /\ Len(writes) = 1
  /\ tableStart > 0
  /\ \E i \in TableStarts(lines) : i > tableEnd
  /\ writes[1].text # targetText

\* the line without its trailing whitespace
TrimEnd(line) == SubSeq(line, 1, SkipSpaceBack(line, Len(line)))

\* the positions of '|' in a text
Bars(t) == {i \in 1..Len(t) : At(t, i) = "|"}

\* The line, surrounding whitespace aside, is "| c1 | c2 | ... |": it starts
\* and ends with '|' and each cell is its trimmed text between two single
\* spaces.
Canonical(line) ==
  \A t \in {trim(line)} :
    \A bars \in {Bars(t)} :
      /\ 1 \in bars
      /\ Len(t) \in bars
      /\ Len(t) >= 2
      /\ \A p \in bars, q \in bars :
           (p < q /\ \A m \in bars : ~(p < m /\ m < q)) =>
             /\ q - p >= 3
             /\ At(t, p + 1) = " "
             /\ At(t, q - 1) = " "
             /\ \A inner \in {SubSeq(t, p + 2, q - 2)} : trim(inner) = inner

\* the lines of the located table whose cells the update left as parsed:
\* <<line read, line written>>, the header line first
KeptLines ==
  {<<LineAt(lines, tableStart), LineAt(WrittenLines(1), tableStart)>>}
    \cup {<<LineAt(lines, tableStart + 1 + k), LineAt(WrittenLines(1), tableStart + 1 + k)>> :
            k \in {n \in 1..Len(dataRows) :
                     WrittenRows[n] = splitRow(LineAt(lines, tableStart + 1 + n))}}

\* C12 as claimed: a table line parsed by splitRow and serialized with its
\* cells unchanged is the line read, trailing whitespace aside.
C12_RoundTripByteForByte ==
  Succeeded => \A pair \in KeptLines : TrimEnd(pair[2]) = TrimEnd(pair[1])

\* C12 amended: such a line is written as "| c1 | c2 | ... |", the parsed
\* cells each between single spaces; parsing the written line gives the same
\* cells; and the written line is the line read, surrounding whitespace
\* aside, exactly when the line read already had that form.
C12_RoundTripCells ==
  Succeeded =>
    \A pair \in KeptLines :
      \A cells \in {splitRow(pair[1])} :
        /\ pair[2] = "| " \o join(cells, " | ") \o " |"
        /\ splitRow(pair[2]) = cells
        /\ Canonical(pair[2])
        /\ (pair[2] = trim(pair[1])) <=> Canonical(pair[1])

\* a header without outer bars and a row of the form "| c1 | c2 |" were both
\* written back with their cells unchanged
C12_Witness ==
  /\ Succeeded
  /\ \E pair \in KeptLines : ~Canonical(pair[1]) /\ pair[2] # pair[1]
  /\ \E pair \in KeptLines :
       /\ pair[1] # LineAt(lines, tableStart)
       /\ Canonical(pair[1])
       /\ pair[2] = pair[1]

\* the column roles have been resolved in this invocation
Resolved == Located /\ tableStart # -1

\* the cells of a header line as they stand between the bars, untrimmed
RawCells(line) ==
  LET t  == trim(line)
      a  == IF Len(t) > 0 /\ At(t, 1) = "|" THEN 2 ELSE 1
      b  == IF Len(t) > 0 /\ At(t, Len(t)) = "|" THEN Len(t) - 1 ELSE Len(t)
  IN  split(SubSeq(t, a, b), "|")

\* index is the smallest index of a cell naming the role, -1 when there is none
IsRoleIndex(cells, names, index) ==
  /\ index \in -1..(Len(cells) - 1)
  /\ index # -1 => toLowerCase(trim(cells[index + 1])) \in names
  /\ \A i \in 0..(Len(cells) - 1) :
       (index = -1 \/ i < index) => toLowerCase(trim(cells[i + 1])) \notin names

\* the header line was read as this and resolved to these five indices
ResolvedAs(line, ticker, shares, price, value, allocation) ==
  LineAt(lines, tableStart) = line =>
    <<tickerIndex, sharesIndex, priceIndex, valueIndex, allocationIndex>>
      = <<ticker, shares, price, value, allocation>>

\* C13: each role resolves to the smallest header index whose trimmed,
\* lower-cased cell is one of the role's names, -1 when there is none, so
\* "Ticker", "  ticker  " and "SYMBOL" all resolve the ticker role; when the
\* ticker or the shares role is -1 the required-column notice is shown and
\* nothing else is done.
C13_ColumnRoles ==
  Resolved =>
    /\ \A cells \in {RawCells(LineAt(lines, tableStart))} :
         /\ IsRoleIndex(cells, TickerNames, tickerIndex)
         /\ IsRoleIndex(cells, SharesNames, sharesIndex)
         /\ IsRoleIndex(cells, PriceNames, priceIndex)
         /\ IsRoleIndex(cells, ValueNames, valueIndex)
         /\ IsRoleIndex(cells, AllocationNames, allocationIndex)
    /\ ResolvedAs("| Ticker | Shares | Price |", 0, 1, 2, -1, -1)
    /\ ResolvedAs("|  ticker  |QTY| Alloc % |", 0, 1, -1, -1, 2)
    /\ ResolvedAs("SYMBOL | Units | Value", 0, 1, -1, 2, -1)
    /\ ResolvedAs("| Fund | Symbol | Price |", 0, -1, 2, -1, -1)
    /\ ResolvedAs("| Name | Shares |", -1, 1, -1, -1, -1)
    /\ IF tickerIndex = -1 \/ sharesIndex = -1
         THEN /\ Done
              /\ notices = <<MissingColumnNotice>>
              /\ dataRows = <<>>
              /\ trace = <<>>
              /\ writes = <<>>
              /\ getValue(editor) = startValue
         ELSE MissingColumnNotice \notin {notices[k] : k \in 1..Len(notices)}

\* a header in upper case and without outer bars resolved its roles and the
\* table was updated
C13_Witness ==
  /\ Succeeded
  /\ LineAt(lines, tableStart) = "SYMBOL | Units | Value"
  /\ tickerIndex = 0
  /\ sharesIndex = 1
  /\ valueIndex = 2

\* the optional numeric fields of a Quote
NumericFields == {"regularMarketPrice", "ask", "bid", "regularMarketPreviousClose"}

\* C14 as claimed: in every Quote of a QuoteMap a numeric field is absent or
\* holds a number the provider supplied, never the zero that stands for no
\* data.
C14_NoZeroForAbsentData ==
  \A s \in DOMAIN quoteMap :
    \A f \in NumericFields : quoteMap[s][f] # Some(0)

\* the properties of a Quote a field of the modal is read from
FieldSources(key) ==
  CASE key = "name" -> {"longName", "shortName"}
    [] key = "currency" -> {"currency"}
    [] key = "bid" -> {"bid"}
    [] key = "ask" -> {"ask"}
    [] key = "marketCap" -> {"marketCap"}
    [] key = "previousClose" -> {"regularMarketPreviousClose"}
    [] key = "volume" -> {"regularMarketVolume"}
    [] key = "fiftytwo_high" -> {"fiftyTwoWeekHigh"}
    [] key = "fiftytwo_low" -> {"fiftyTwoWeekLow"}
    [] key = "dayRange_high" -> {"regularMarketDayHigh"}
    [] key = "dayRange_low" -> {"regularMarketDayLow"}
    [] OTHER -> {}

\* the quote has a value for the field
HasValue(quote, key) ==
  \E p \in FieldSources(key) : p \in DOMAIN quote /\ quote[p] # None

\* the single-value command ended with the quote of the ticker fetched
QuoteFetched ==
  /\ Done
  /\ modalField # ""
  /\ fetched = "returned"
  /\ normalizeSymbol(modalTicker) \in DOMAIN quoteMap

\* the text the buffer must show for a value: <<value, text>>
Renderings ==
  {<<"marketCap", 2500000, "2.5T">>, <<"marketCap", 1500, "1.5B">>,
   <<"marketCap", 999, "999M">>,
   <<"volume", 123456700, "1,234,567">>, <<"volume", 0, "0">>,
   <<"name", "Apple Inc.", "Apple Inc.">>, <<"name", "Apple", "Apple">>,
   <<"currency", "USD", "USD">>,
   <<"bid", 14900, "149">>, <<"ask", 15000, "150">>,
   <<"previousClose", 14900, "149">>, <<"previousClose", 14800, "148">>,
   <<"previousClose", 4900, "49">>, <<"previousClose", 0, "0">>,
   <<"fiftytwo_high", 19950, "199.5">>, <<"dayRange_low", 14805, "148.05">>}

DashCell(cell) ==
  \A t \in {trim(cell)} :
    \A a \in {IF Len(t) > 0 /\ At(t, 1) = ":" THEN 2 ELSE 1} :
      \A b \in {IF Len(t) >= a /\ At(t, Len(t)) = ":" THEN Len(t) - 1 ELSE Len(t)} :
        /\ b - a + 1 >= 2
        /\ \A i \in a..b : At(t, i) = "-"

\* a line of two or more such cells separated by '|', outer bars optional
TwoDashSeparator(line) ==
  \A cells \in {RawCells(line)} :
    /\ Len(cells) >= 2
    /\ \A k \in 1..Len(cells) : DashCell(cells[k])

\* C16 as claimed: a row line followed by a line of cells of two or more
\* dashes, such as "|--|--|", is located as a table.
C16_TwoDashSeparatorLocated ==
  Located =>
    \A i \in 0..(Len(lines) - 2) :
      (isTableRow(LineAt(lines, i)) /\ TwoDashSeparator(LineAt(lines, i + 1)))
        => (tableStart # -1 /\ tableStart <= i)

Edited == Contains(getValue(editor), UserEditText)

\* C17 as claimed: a change made to the buffer while the invocation is
\* suspended is still in the buffer after the invocation has written: once
\* the buffer holds the user's text, every later step keeps it.
C17_EditSurvivesWrite == [][Edited => Edited']_vars

\* the run of updatePortfolioTable on `text` up to its write, the providers
\* returning `quotes`: the range it locates and the text it writes
SecondRun(text, quotes) ==
  LET ls    == split(text, "\n")
      start == locateStart(ls)
      end   == locateEnd(ls, start)
      hdr   == locateHeader(ls, start)
      cols  == Columns(headerIndex(hdr, TickerNames), headerIndex(hdr, SharesNames),
                       headerIndex(hdr, PriceNames), headerIndex(hdr, ValueNames),
                       headerIndex(hdr, AllocationNames))
      rows  == sliceRows(ls, start, end)
  IN  [tableStart |-> start,
       tableEnd   |-> end,
       succeeds   |-> /\ ~noTable(start, end)
                      /\ ~requiredColumnMissing(cols.ticker, cols.shares)
                      /\ Len(rowSymbols(rows, cols.ticker)) > 0,
       text       |-> IF noTable(start, end) THEN text
                      ELSE updatedText(ls, start, end,
                             updatedTableLines(hdr, LineAt(ls, start + 1),
                                               updatedRows(hdr, cols, rows, quotes)))]

Wrote == Succeeded /\ Len(writes) = 1

\* C18: when updatePortfolioTable has succeeded on a text, a second run on
\* the text it wrote, with the same quotes, succeeds, locates the same
\* [tableStart, tableEnd] and writes that same text again.
C18_Idempotent ==
  Wrote =>
    \A again \in {SecondRun(writes[1].text, quoteMap)} :
      /\ again.succeeds
      /\ again.tableStart = tableStart
      /\ again.tableEnd = tableEnd
      /\ again.text = writes[1].text

\* a run that changed its text: header or rows not in the written form, or
\* a cell filled from a quote
C18_Witness ==
  /\ Wrote
  /\ writes[1].text # targetText
  /\ \E k \in 1..Len(dataRows) : rowQuote(Columns(tickerIndex, sharesIndex, priceIndex,
                                                   valueIndex, allocationIndex),
                                          padRow(dataRows[k], Len(header)), quoteMap) # None
  /\ SecondRun(writes[1].text, quoteMap).text = writes[1].text

====
